---- MODULE Spec2Model ----
(***************************************************************************)
(* km77-scraper: the SpecOp table parser (Trim.get_specops), the per-entity *)
(* drivers of utils.py and the pipeline of km77.main.                       *)
(*                                                                          *)
(* Markup is modelled by the part of the document tree the code looks at:   *)
(* the two region containers, their tables, each table's caption and rows,  *)
(* each row's th and td cells.  A text is the sequence of its characters,   *)
(* where a word stands for a run of non-blank characters, so that split     *)
(* and strip are computed and not assumed.  An absent element (a find that  *)
(* returns None) is the empty tuple, a present one a one-element tuple.     *)
(***************************************************************************)
EXTENDS Integers, Sequences, FiniteSets, TLC

\* ------------------------------------------------------------------ text
NL == "\n"
SP == " "

None == <<>>
Some(x) == <<x>>

IsWs(c) == c \in {NL, SP}

\* str.strip(): leading and trailing whitespace (blanks and line breaks) removed
RECURSIVE LStrip(_)
LStrip(s) ==
    IF s = <<>> THEN <<>>
    ELSE IF IsWs(Head(s)) THEN LStrip(Tail(s)) ELSE s

RECURSIVE RStrip(_)
RStrip(s) ==
    IF s = <<>> THEN <<>>
    ELSE IF IsWs(s[Len(s)]) THEN RStrip(SubSeq(s, 1, Len(s) - 1)) ELSE s

Strip(s) == RStrip(LStrip(s))

\* str.split("\n"): the lines of s, always at least one
RECURSIVE SplitFrom(_, _, _)
SplitFrom(s, cur, acc) ==
    IF s = <<>> THEN Append(acc, cur)
    ELSE IF Head(s) = NL THEN SplitFrom(Tail(s), <<>>, Append(acc, cur))
    ELSE SplitFrom(Tail(s), Append(cur, Head(s)), acc)

Split(s) == SplitFrom(s, <<>>, <<>>)

\* "\n" in s
HasNL(s) == \E i \in 1..Len(s) : s[i] = NL

\* "Distintivo ambiental" in key
ENV_LABEL == "Distintivo ambiental"
HasEnvLabel(s) == \E i \in 1..Len(s) : s[i] = ENV_LABEL

\* ------------------------------------------------- record values (dicts)
\* A Python value stored in data: a str, a dict (insertion-ordered list of
\* key/value pairs) or a list of str.
Str(t) == [kind |-> "str", text |-> t, items |-> <<>>, list |-> <<>>]
Dict(items) == [kind |-> "dict", text |-> <<>>, items |-> items, list |-> <<>>]
List(l) == [kind |-> "list", text |-> <<>>, items |-> <<>>, list |-> l]

HasKey(items, k) == \E i \in 1..Len(items) : items[i].key = k
KeyIndex(items, k) == CHOOSE i \in 1..Len(items) : items[i].key = k
Lookup(items, k) == items[KeyIndex(items, k)].val

\* d[k] = v: overwrite in place when the key exists, else insert at the end
Put(items, k, v) ==
    IF HasKey(items, k)
    THEN [items EXCEPT ![KeyIndex(items, k)] = [key |-> k, val |-> v]]
    ELSE Append(items, [key |-> k, val |-> v])

Keys(items) == [i \in 1..Len(items) |-> items[i].key]

PRICE == <<"price">>
ADDONS == <<"addons">>

\* ------------------------------------------------- Trim.get_specops: rows
num_tds == 3

\* x = cell.text; if "\n" in x: x = x.split("\n")[1].strip()
SecondLine(t) == IF HasNL(t) THEN Strip(Split(t)[2]) ELSE t

RowResult(d, l, e, b) == [data |-> d, last |-> l, exc |-> e, branch |-> b]

\* len(tds) == 3: data[package_name] = {"price": price, "addons": addons}
PackageRow(row, data, last) ==
    LET tds == row.tds
        package_name == Split(Strip(tds[1].text))[1]
        price == Strip(tds[2].text)
        addons == IF tds[1].modal # None THEN tds[1].modal[1] ELSE <<>>
        pkg == Dict(<< [key |-> PRICE, val |-> Str(price)],
                       [key |-> ADDONS, val |-> List(addons)] >>)
    IN  RowResult(Put(data, package_name, pkg), last, "none", "package")

\* row.find("td") is None: last_pseudo_key = row.find("th").text ...
SectionRow(row, data, last) ==
    IF row.th = None
    THEN RowResult(data, last, "AttributeError", "section")
    ELSE LET key == SecondLine(row.th[1])
         IN  RowResult(Put(data, key, Dict(<<>>)), Some(key), "none", "section")

\* a plausible slip: the nested mapping is replaced, not extended
ContinuationRow_Overwrite(row, data, last) ==
    IF Len(row.tds) < 2 \/ last = None
    THEN RowResult(data, last, "IndexError", "continuation")
    ELSE RowResult(
           Put(data, last[1],
               Dict(<< [key |-> SecondLine(row.tds[1].text),
                        val |-> Str(SecondLine(row.tds[2].text))] >>)),
           last, "none", "continuation")

\* row.find("th") is None: data[last_pseudo_key][key] = value
ContinuationRow(row, data, last) ==
    LET tds == row.tds IN
    IF Len(tds) < 2
    THEN RowResult(data, last, "IndexError", "continuation")
    ELSE LET key == SecondLine(tds[1].text)
             value == SecondLine(tds[2].text)
         IN  IF last = None \/ ~HasKey(data, last[1])
             THEN RowResult(data, last, "KeyError", "continuation")
             ELSE LET cur == Lookup(data, last[1]) IN
                  IF cur.kind = "dict"
                  THEN RowResult(
                         Put(data, last[1], Dict(Put(cur.items, key, Str(value)))),
                         last, "none", "continuation")
                  ELSE RowResult(data, last, "TypeError", "continuation")

\* row.find("td", class_="text-right"): the first right-aligned td, or None
RightTds(tds) == SelectSeq(tds, LAMBDA td : td.right)

\* the value expression of lines 134-142, for a key already computed
KeyValueValue(row, key) ==
    IF ~HasEnvLabel(key)
    THEN IF RightTds(row.tds) = <<>>
         THEN [exc |-> "AttributeError", value |-> <<>>]
         ELSE LET lines == Split(RightTds(row.tds)[1].text) IN
              IF Len(lines) < 2
              THEN [exc |-> "IndexError", value |-> <<>>]
              ELSE [exc |-> "none", value |-> Strip(lines[2])]
    ELSE LET td == row.tds[1] IN
         IF td.img = None
         THEN [exc |-> "TypeError", value |-> <<>>]
         ELSE IF td.img[1] = None
              THEN [exc |-> "KeyError", value |-> <<>>]
              ELSE [exc |-> "none", value |-> td.img[1][1]]

\* else: key = row.find("th").text.split("\n")[1].strip(); data[key] = value
KeyValueRow(row, data, last) ==
    LET lines == Split(row.th[1]) IN
    IF Len(lines) < 2
    THEN RowResult(data, last, "IndexError", "keyvalue")
    ELSE LET key == Strip(lines[2])
             v == KeyValueValue(row, key)
         IN  IF v.exc # "none"
             THEN RowResult(data, last, v.exc, "keyvalue")
             ELSE RowResult(Put(data, key, Str(v.value)), last, "none", "keyvalue")

\* a plausible slip: the label test comes before the three-cell test
RowBranch_LabelFirst(row) ==
    IF row.tds = <<>> THEN "section"
    ELSE IF row.th # None THEN "keyvalue"
    ELSE IF Len(row.tds) = num_tds THEN "package"
    ELSE "continuation"

\* the if / elif / elif / else of the row loop
RowBranch(row) ==
    IF Len(row.tds) = num_tds THEN "package"
    ELSE IF row.tds = <<>> THEN "section"
    ELSE IF row.th = None THEN "continuation"
    ELSE "keyvalue"

RowStep(row, data, last) ==
    CASE RowBranch(row) = "package" -> PackageRow(row, data, last)
      [] RowBranch(row) = "section" -> SectionRow(row, data, last)
      [] RowBranch(row) = "continuation" -> ContinuationRow(row, data, last)
      [] OTHER -> KeyValueRow(row, data, last)

RECURSIVE ParseRows(_, _, _, _, _)
\* the loop once its first row gave the result r: an exception leaves the loop
\* at once, else the next row is read.  trace keeps, for every row visited,
\* the branch taken and the carried state around it.
RowsAfter(rows, data, last, trace, where, r) ==
    LET t == Append(trace, [region |-> where.region, table |-> where.table,
                            row |-> Head(rows), branch |-> r.branch,
                            exc |-> r.exc, before |-> last, after |-> r.last,
                            dataBefore |-> data, dataAfter |-> r.data])
    IN  IF r.exc # "none"
        THEN [data |-> r.data, last |-> r.last, exc |-> r.exc, trace |-> t]
        ELSE ParseRows(Tail(rows), r.data, r.last, t, where)

\* for row in rows: ...
ParseRows(rows, data, last, trace, where) ==
    IF rows = <<>>
    THEN [data |-> data, last |-> last, exc |-> "none", trace |-> trace]
    ELSE RowsAfter(rows, data, last, trace, where, RowStep(Head(rows), data, last))

\* ----------------------------------------- Trim.get_specops: tables, regions
\* a plausible slip: the tables without rows are kept
NonEmptyTables_All(div) == div

\* tables = [table for table in div.find_all("table") if table.find("tr")]
NonEmptyTables(div) == SelectSeq(div, LAMBDA t : t.rows # <<>>)

\* caption.text.split("\n")[1].strip() if div != specs_div else caption.text.strip()
CaptionText(table, isSpecs) ==
    IF isSpecs
    THEN [exc |-> "none", caption |-> Strip(table.caption[1])]
    ELSE LET lines == Split(table.caption[1]) IN
         IF Len(lines) < 2
         THEN [exc |-> "IndexError", caption |-> <<>>]
         ELSE [exc |-> "none", caption |-> Strip(lines[2])]

\* self.specs.append(...) if div == specs_div else self.options.append(...)
AppendRecord(st, isSpecs, rec) ==
    IF isSpecs
    THEN [st EXCEPT !.specs = Append(@, rec)]
    ELSE [st EXCEPT !.options = Append(@, rec)]

\* the end of the loop body, the rows read with result r: the record is
\* appended unless a row raised
TableRecord(caption, r, isSpecs, st) ==
    IF r.exc # "none"
    THEN [st EXCEPT !.exc = r.exc, !.trace = r.trace]
    ELSE AppendRecord([st EXCEPT !.trace = r.trace], isSpecs,
                      [caption |-> caption, data |-> r.data])

\* a plausible slip: data and last_pseudo_key are set once, before the loop over
\* the tables, and carried from the last row read
CaptionedTableStep_Carried(table, i, isSpecs, st) ==
    LET c == CaptionText(table, isSpecs) IN
    IF c.exc # "none" THEN [st EXCEPT !.exc = c.exc]
    ELSE TableRecord(c.caption,
                     ParseRows(table.rows,
                               IF st.trace = <<>> THEN <<>>
                               ELSE st.trace[Len(st.trace)].dataAfter,
                               IF st.trace = <<>> THEN None
                               ELSE st.trace[Len(st.trace)].after,
                               st.trace,
                               [region |-> IF isSpecs THEN "specs" ELSE "options",
                                table |-> i]),
                     isSpecs, st)

\* the loop body for a table that has a caption: resolve the caption, read the
\* rows, append the record (st carries self.specs, self.options, the exception
\* raised if any, and the row trace)
CaptionedTableStep(table, i, isSpecs, st) ==
    LET c == CaptionText(table, isSpecs) IN
    IF c.exc # "none" THEN [st EXCEPT !.exc = c.exc]
    ELSE TableRecord(c.caption,
                     ParseRows(table.rows, <<>>, None, st.trace,
                               [region |-> IF isSpecs THEN "specs" ELSE "options",
                                table |-> i]),
                     isSpecs, st)

\* a plausible slip: a table without a caption still yields a record
TableStep_CaptionlessRecord(table, i, isSpecs, st) ==
    IF table.caption = None
    THEN AppendRecord(st, isSpecs, [caption |-> <<>>, data |-> <<>>])
    ELSE CaptionedTableStep(table, i, isSpecs, st)

\* the loop body: if caption: ... else: continue
TableStep(table, i, isSpecs, st) ==
    IF table.caption = None THEN st
    ELSE CaptionedTableStep(table, i, isSpecs, st)

RECURSIVE ParseTables(_, _, _, _)
\* the loop once table i left the state s2: an exception leaves the loop
TablesAfter(tables, i, isSpecs, s2) ==
    IF s2.exc # "none" THEN s2
    ELSE ParseTables(tables, i + 1, isSpecs, s2)

\* for table in tables: ...
ParseTables(tables, i, isSpecs, st) ==
    IF i > Len(tables) THEN st
    ELSE TablesAfter(tables, i, isSpecs, TableStep(tables[i], i, isSpecs, st))

\* for div in [specs_div, options_div]: if div is None: continue ...
ParseDiv(div, isSpecs, st) ==
    IF st.exc # "none" \/ div = None THEN st
    ELSE ParseTables(NonEmptyTables(div[1]), 1, isSpecs, st)

\* Trim.get_specops: the trim's lists after the call, the exception that left
\* the call (or "none"), the rows visited and the log entries written
GetSpecops(trim) ==
    LET st0 == [specs |-> trim.specs, options |-> trim.options, exc |-> "none",
                trace |-> <<>>, log |-> <<>>]
    IN  IF trim.specs # <<>> /\ trim.options # <<>> THEN st0
        ELSE IF trim.children_source = None
        THEN [st0 EXCEPT !.log = << [level |-> "error", msg |-> "No source found for",
                                     name |-> trim.name] >>]
        ELSE LET src == trim.children_source[1]
             IN  ParseDiv(src.options_div, FALSE, ParseDiv(src.specs_div, TRUE, st0))

\* --------------------------------------- utils.process_children_sources
\* One pass of the loop body for a Trim: try: get_specops except Exception: log
Caught(trim, r) ==
    [trim |-> [trim EXCEPT !.specs = r.specs, !.options = r.options],
     exc |-> r.exc,
     trace |-> r.trace,
     log |-> IF r.exc = "none" THEN r.log
             ELSE Append(r.log, [level |-> "exception", msg |-> "Error getting",
                                 name |-> trim.name])]

ProcessTrim(trim) == Caught(trim, GetSpecops(trim))

\* ------------------------------------------------------------ the inputs
\* Bounds of the model
MaxRows == 3
MaxTables == 2
MaxRuns == 2

Td(text, right, img, modal) ==
    [text |-> text, right |-> right, img |-> img, modal |-> modal]
Row(th, tds) == [th |-> th, tds |-> tds]
Table(caption, rows) == [caption |-> caption, rows |-> rows]
Markup(specs_div, options_div) ==
    [specs_div |-> specs_div, options_div |-> options_div]

PlainTd(text) == Td(text, FALSE, None, None)
RightTd(text) == Td(text, TRUE, None, None)

\* package rows: three td, without and with a th label and a modal list
RowPackage == Row(None, << PlainTd(<<NL, "Faros", SP, "LED", NL>>),
                           PlainTd(<<SP, "350", SP>>), PlainTd(<<>>) >>)
RowPackageTh == Row(Some(<<NL, "P", NL>>),
                    << Td(<<NL, "Pack", NL, "a1", NL>>, FALSE, None,
                          Some(<< <<"a1">> >>)),
                       RightTd(<<NL, "900", NL>>), PlainTd(<<>>) >>)
\* section headers: a th and no td, with a two-line and a one-line label
RowSection2 == Row(Some(<<NL, "A", SP, NL>>), <<>>)
RowSection1 == Row(Some(<<"B", SP>>), <<>>)
\* continuation rows: no th, two td, one-line and two-line texts
RowCont1 == Row(None, << PlainTd(<<"k1">>), PlainTd(<<"v1">>) >>)
RowCont2 == Row(None, << PlainTd(<<NL, "k2", NL>>), PlainTd(<<NL, SP, "v2", NL>>) >>)
\* key/value rows: a th and a right-aligned td
RowKeyValue == Row(Some(<<NL, "P", NL>>), << RightTd(<<NL, "170", NL>>) >>)
RowKeyValueOneLineKey == Row(Some(<<"P">>), << RightTd(<<NL, "170", NL>>) >>)
RowKeyValueOneLineValue == Row(Some(<<NL, "Q", NL>>), << RightTd(<<"170">>) >>)
\* a key/value row whose label is the label of the section header RowSection2
RowKeyValueSection == Row(Some(<<NL, "A", NL>>), << RightTd(<<NL, "1", NL>>) >>)
\* key/value rows of the environmental label: the value cell holds an image;
\* the label text has the words on its second line, or on its first line only
RowEnv == Row(Some(<<NL, ENV_LABEL, NL>>),
              << Td(<<NL, "Etiqueta", NL>>, TRUE, Some(Some(<<"C">>)), None) >>)
RowEnvFirstLine == Row(Some(<<ENV_LABEL, NL, "DGT", NL>>),
                       << Td(<<NL, "Etiqueta", NL>>, TRUE, Some(Some(<<"C">>)), None) >>)
\* rows of no documented shape
RowNoCells == Row(None, <<>>)
RowSingleTd == Row(None, << PlainTd(<<"x">>) >>)

Rows == { RowPackage, RowPackageTh, RowSection2, RowSection1, RowCont1, RowCont2,
          RowKeyValue, RowKeyValueOneLineKey, RowKeyValueOneLineValue,
          RowKeyValueSection, RowEnv, RowEnvFirstLine, RowNoCells, RowSingleTd }

RECURSIVE SeqsUpTo(_, _)
SeqsUpTo(S, n) ==
    IF n = 0 THEN { <<>> }
    ELSE LET shorter == SeqsUpTo(S, n - 1)
         IN  shorter \cup { Append(q, x) : q \in shorter, x \in S }

CaptionOneLine == <<"Motor", SP>>
CaptionTwoLine == <<NL, "Faros", NL>>

\* a document with one region holding one captioned table
RowMarkups ==
    { Markup(Some(<< Table(Some(CaptionOneLine), rows) >>), None) :
        rows \in SeqsUpTo(Rows, MaxRows) }
    \cup
    { Markup(None, Some(<< Table(Some(c), rows) >>)) :
        c \in {CaptionOneLine, CaptionTwoLine}, rows \in SeqsUpTo(Rows, MaxRows) }

\* the tables of the table-level documents
Tables == { Table(None, << RowKeyValue >>),
            Table(Some(CaptionOneLine), <<>>),
            Table(Some(CaptionOneLine), << RowKeyValue >>),
            Table(Some(CaptionTwoLine), << RowKeyValue >>),
            Table(Some(<<NL, "Luces">>), << RowPackage >>),
            Table(Some(CaptionTwoLine), << RowNoCells >>),
            Table(Some(CaptionTwoLine), << RowSection2, RowCont1 >>),
            Table(Some(CaptionTwoLine), << RowCont2 >>) }

Divs == { None } \cup { Some(ts) : ts \in SeqsUpTo(Tables, MaxTables) }

TableMarkups == { Markup(s, o) : s \in Divs, o \in Divs }

NewTrim(name, source) ==
    [name |-> name, children_source |-> source, specs |-> <<>>, options |-> <<>>]

\* ------------------------------------------------- documents, urls, the store
\* A fetched document (a BeautifulSoup tree) by what the code looks for in it:
\* div.js-brand-item, li.vehicle-block, td.vehicle-name and the two regions.
\* blank: the document has no content at all (its str() is the empty string).
Doc(blank, brands, lis, tds, specs_div, options_div) ==
    [blank |-> blank, brands |-> brands, lis |-> lis, tds |-> tds,
     specs_div |-> specs_div, options_div |-> options_div]

\* bs4.BeautifulSoup("", "html.parser")
EmptyDoc == Doc(TRUE, <<>>, <<>>, <<>>, None, None)

\* children_source.append(other): other's content comes last in document order
AppendDoc(d, other) ==
    Doc(d.blank /\ other.blank, d.brands \o other.brands, d.lis \o other.lis,
        d.tds \o other.tds,
        IF d.specs_div # None THEN d.specs_div ELSE other.specs_div,
        IF d.options_div # None THEN d.options_div ELSE other.options_div)

\* str(obj.children_source), the TEXT stored in the children_source column
ToText(d) == [empty |-> d.blank, html |-> d]
\* if row[k]: BeautifulSoup(row[k], "html.parser"), else the attribute stays None
FromColumn(col) ==
    IF col = None THEN None
    ELSE IF col[1].empty THEN None ELSE Some(col[1].html)

\* A url is the sequence of its path segments; BASE_URL adds none of the
\* words the code looks for.
InUrl(word, url) == \E i \in 1..Len(url) : url[i] = word
MakeUrl(href) == Append(href, "?market[]=available&market[]=discontinued")
ModelUrl(href) == Append(href, "datos")
TrimUrl(href) == href
EquipUrl(url) == Append(url, "equipamiento")
MakesPageUrl == <<"coches">>

\* text.split("|")[0]
RECURSIVE BeforeBar(_)
BeforeBar(s) ==
    IF s = <<>> \/ Head(s) = "|" THEN <<>> ELSE <<Head(s)>> \o BeforeBar(Tail(s))

\* The store: three tables of rows; id is the AUTOINCREMENT primary key.
DbRow(id, parent, name, url) ==
    [id |-> id, parent |-> parent, name |-> name, url |-> url, children_source |-> None]

EmptyDb == [makes |-> <<>>, models |-> <<>>, trims |-> <<>>]

MaxId(rows) ==
    IF rows = <<>> THEN 0
    ELSE CHOOSE n \in { rows[i].id : i \in 1..Len(rows) } :
            \A i \in 1..Len(rows) : rows[i].id <= n

\* get_next_id: SELECT MAX(id); max_id[0] + 1 if max_id[0] else 1
get_next_id(store, table) ==
    IF MaxId(store[table]) # 0 THEN MaxId(store[table]) + 1 ELSE 1

\* INSERT OR IGNORE INTO table (parent, name, url): UNIQUE (parent, name, url),
\* the id is given by the table; then commit.  A new object has no
\* children_source yet, so the UPDATE of lines 85-89 is not taken.
insert_into_database(store, table, parent, name, url) ==
    IF \E i \in 1..Len(store[table]) :
          /\ store[table][i].parent = parent
          /\ store[table][i].name = name
          /\ store[table][i].url = url
    THEN store
    ELSE [store EXCEPT
            ![table] = Append(@, DbRow(MaxId(@) + 1, parent, name, url))]

\* UPDATE table SET children_source = ? WHERE id = ?; commit
UpdateSource(store, table, id, doc) ==
    [store EXCEPT
       ![table] = [i \in 1..Len(@) |->
                     IF @[i].id = id
                     THEN [@[i] EXCEPT !.children_source = Some(ToText(doc))]
                     ELSE @[i]]]

\* The in-memory objects
NewMake(id, name, url) ==
    [id |-> id, name |-> name, children_url |-> url, children_source |-> None,
     models |-> <<>>]
NewModel(id, name, url) ==
    [id |-> id, name |-> name, children_url |-> url, children_source |-> None,
     trims |-> <<>>]
NewTrimObj(id, name, url) ==
    [id |-> id, name |-> name, children_url |-> url, children_source |-> None,
     specs |-> <<>>, options |-> <<>>]

RowsOf(rows, parent) == SelectSeq(rows, LAMBDA r : r.parent = parent)

\* utils.load_database: the hierarchy rebuilt from the rows of the store
LoadTrim(r) ==
    [NewTrimObj(r.id, r.name, r.url) EXCEPT
       !.children_source = FromColumn(r.children_source)]
LoadModel(store, r) ==
    [NewModel(r.id, r.name, r.url) EXCEPT
       !.children_source = FromColumn(r.children_source),
       !.trims = LET rs == RowsOf(store.trims, r.id)
                 IN  [i \in 1..Len(rs) |-> LoadTrim(rs[i])]]
LoadMake(store, r) ==
    [NewMake(r.id, r.name, r.url) EXCEPT
       !.children_source = FromColumn(r.children_source),
       !.models = LET rs == RowsOf(store.models, r.id)
                  IN  [i \in 1..Len(rs) |-> LoadModel(store, rs[i])]]
load_database(store) ==
    [i \in 1..Len(store.makes) |-> LoadMake(store, store.makes[i])]

\* the object of the hierarchy at a path <<make>>, <<make, model>> or
\* <<make, model, trim>>, and the hierarchy with that object replaced
GetObj(ml, path) ==
    IF Len(path) = 1 THEN ml[path[1]]
    ELSE IF Len(path) = 2 THEN ml[path[1]].models[path[2]]
    ELSE ml[path[1]].models[path[2]].trims[path[3]]

SetObj(ml, path, obj) ==
    IF Len(path) = 1 THEN [ml EXCEPT ![path[1]] = obj]
    ELSE IF Len(path) = 2 THEN [ml EXCEPT ![path[1]].models[path[2]] = obj]
    ELSE [ml EXCEPT ![path[1]].models[path[2]].trims[path[3]] = obj]

RECURSIVE Flatten(_)
Flatten(ss) == IF ss = <<>> THEN <<>> ELSE Head(ss) \o Flatten(Tail(ss))

\* makes_list, all_models and all_trims as lists of paths
MakePaths(ml) == [m \in 1..Len(ml) |-> <<m>>]
ModelPaths(ml) ==
    Flatten([m \in 1..Len(ml) |-> [x \in 1..Len(ml[m].models) |-> <<m, x>>]])
TrimPaths(ml) ==
    LET am == ModelPaths(ml) IN
    Flatten([k \in 1..Len(am) |->
               [t \in 1..Len(GetObj(ml, am[k]).trims) |-> <<am[k][1], am[k][2], t>>]])

TableOf(path) ==
    IF Len(path) = 1 THEN "makes" ELSE IF Len(path) = 2 THEN "models" ELSE "trims"

\* ------------------------------------------- Make.get_models, Model.get_trims
\* a plausible slip: the name is never looked up
HasName_Never(objs, name) == FALSE

\* any(obj.name == name for obj in objs)
HasName(objs, name) == \E i \in 1..Len(objs) : objs[i].name = name

ErrorLog(msg, name) == [level |-> "error", msg |-> msg, name |-> name]
ExceptionLog(msg, name) == [level |-> "exception", msg |-> msg, name |-> name]

\* What the environment does to one pass of discovery: the id query of the
\* idfail-th new child fails, the insert of the insfail-th new child fails, the
\* user interrupts while the cut-th new child is created, before its insert is
\* sent ("query") or after it and before the commit ("executed"); 0 is never
Plan(idfail, insfail, cut, cutpoint) ==
    [idfail |-> idfail, insfail |-> insfail, cut |-> cut, cutpoint |-> cutpoint]
NoPlan == Plan(0, 0, 0, "query")
Plans(n) ==
    { Plan(i, j, c, p) : i \in 0..n, j \in 0..n, c \in 0..n, p \in {"query", "executed"} }

\* the state of a discovery: the parent, the committed store, the exception that
\* ends the loop ("none" while it runs), whether the method itself caught it,
\* the log entries, the children created and the store faults met so far, and
\* the store as the connection sees it when a statement is left uncommitted
Discovery(obj, store, plan) ==
    [obj |-> obj, store |-> store, exc |-> "none", caught |-> FALSE, log |-> <<>>,
     plan |-> plan, created |-> 0, faults |-> 0, inflight |-> None]

\* next_id = await get_next_id(table); child = ...; await insert_into_database(child);
\* parent.add_child(child).  A failed id query gives 1 (get_next_id, except
\* Exception: return 1), a failed insert is logged and leaves no row.
CreateChild(st, table, name, url) ==
    LET n == st.created + 1
        idfail == st.plan.idfail = n
        insfail == st.plan.insfail = n
        next_id == IF idfail THEN 1 ELSE get_next_id(st.store, table)
        child == IF table = "models" THEN NewModel(next_id, name, url)
                 ELSE NewTrimObj(next_id, name, url)
        stored == insert_into_database(st.store, table, st.obj.id, name, url)
        l1 == IF idfail
              THEN Append(st.log, ExceptionLog("Error getting the next id for", table))
              ELSE st.log
        l2 == IF insfail THEN Append(l1, ExceptionLog("Error inserting", name)) ELSE l1
    IN  IF st.plan.cut = n
        THEN [st EXCEPT !.exc = "KeyboardInterrupt",
                        !.inflight = IF st.plan.cutpoint = "executed" /\ ~insfail
                                     THEN Some(stored) ELSE None]
        ELSE [st EXCEPT
                !.store = IF insfail THEN @ ELSE stored,
                !.obj = IF table = "models"
                        THEN [@ EXCEPT !.models = Append(@, child)]
                        ELSE [@ EXCEPT !.trims = Append(@, child)],
                !.log = l2,
                !.created = n,
                !.faults = @ + (IF idfail THEN 1 ELSE 0) + (IF insfail THEN 1 ELSE 0)]

\* the body of the loop of get_models for one li.vehicle-block
ModelStep(st, li) ==
    IF li.veh_name = None
    THEN [st EXCEPT !.exc = "AttributeError", !.caught = TRUE]
    ELSE LET model_name == Strip(BeforeBar(li.veh_name[1].text)) IN
         IF HasName(st.obj.models, model_name) THEN st
         ELSE IF li.veh_name[1].span = None
         THEN [st EXCEPT !.exc = "AttributeError", !.caught = TRUE]
         ELSE IF li.a = None THEN [st EXCEPT !.exc = "TypeError"]
         ELSE IF li.a[1].href = None THEN [st EXCEPT !.exc = "KeyError"]
         ELSE CreateChild(st, "models", model_name, ModelUrl(li.a[1].href[1]))

\* the body of the loop of get_trims for one td.vehicle-name
TrimStep(st, td) ==
    IF td.a = None THEN [st EXCEPT !.exc = "AttributeError", !.caught = TRUE]
    ELSE IF Len(Split(td.a[1].text)) < 2
    THEN [st EXCEPT !.exc = "IndexError", !.caught = TRUE]
    ELSE LET trim_name == Strip(Split(td.a[1].text)[2]) IN
         IF HasName(st.obj.trims, trim_name) THEN st
         ELSE IF td.span = None
         THEN [st EXCEPT !.exc = "AttributeError", !.caught = TRUE]
         ELSE IF td.a[1].href = None
         THEN [st EXCEPT !.exc = "KeyError", !.caught = TRUE]
         ELSE CreateChild(st, "trims", trim_name, TrimUrl(td.a[1].href[1]))

\* for x in items: ...; an exception leaves the loop
RECURSIVE DiscoverLoop(_, _, _)
DiscoverLoop(st, items, isMake) ==
    IF items = <<>> \/ st.exc # "none" THEN st
    ELSE DiscoverLoop(IF isMake THEN ModelStep(st, Head(items))
                      ELSE TrimStep(st, Head(items)),
                      Tail(items), isMake)

\* a caught exception is logged by the method and does not leave it
Returned(st, msg) ==
    IF st.caught
    THEN [st EXCEPT !.exc = "none", !.log = Append(@, ExceptionLog(msg, st.obj.name))]
    ELSE st

\* Make.get_models
get_models(make, store, plan) ==
    LET st0 == Discovery(make, store, plan) IN
    IF ~InUrl("coches", make.children_url) THEN st0
    ELSE IF make.children_source = None
    THEN [st0 EXCEPT !.log = <<ErrorLog("No source found for", make.name)>>]
    ELSE Returned(DiscoverLoop(st0, make.children_source[1].lis, TRUE),
                  "Error getting model for")

\* Model.get_trims
get_trims(model, store, plan) ==
    LET st0 == Discovery(model, store, plan) IN
    IF InUrl("informacion", model.children_url) THEN st0
    ELSE IF model.children_source = None
    THEN [st0 EXCEPT !.log = <<ErrorLog("No source found for", model.name)>>]
    ELSE IF model.children_source[1].tds = <<>>
    THEN [st0 EXCEPT !.log = <<ErrorLog("No trims found for", model.name)>>]
    ELSE Returned(DiscoverLoop(st0, model.children_source[1].tds, FALSE),
                  "Error getting trims for")

\* ------------------------------------------------------------ the website
Brand(a, text) == [a |-> a, text |-> text]
Anchor(text, href) == [text |-> text, href |-> href]
Li(veh_name, a) == [veh_name |-> veh_name, a |-> a]
VehName(text, span) == [text |-> text, span |-> span]
VehTd(a, span) == [a |-> a, span |-> span]

AudiHref == <<"coches", "audi">>
SeatHref == <<"marcas", "seat">>
A3Href == <<"coches", "audi", "a3">>
A4Href == <<"coches", "audi", "a4", "informacion">>
SportHref == <<"coches", "audi", "a3", "sport">>
BaseHref == <<"coches", "audi", "a3", "base">>

BrandAudi == Brand(Some(Anchor(<<"Audi">>, Some(AudiHref))), <<NL, "Audi", NL>>)
BrandSeat == Brand(Some(Anchor(<<"Seat">>, Some(SeatHref))), <<NL, "Seat", NL>>)
BrandNoLink == Brand(None, <<"Otros">>)

LiA3 == Li(Some(VehName(<<"A3", SP, "|", SP, "2020">>, Some(<<"2020">>))),
           Some(Anchor(<<>>, Some(A3Href))))
LiA4 == Li(Some(VehName(<<"A4", SP, "|", SP, "2016">>, Some(<<"2016">>))),
           Some(Anchor(<<>>, Some(A4Href))))
LiNoName == Li(None, Some(Anchor(<<>>, Some(A3Href))))
LiNoLink == Li(Some(VehName(<<"A5", SP, "|">>, Some(<<"2021">>))), None)

TdSport == VehTd(Some(Anchor(<<NL, "Sport", SP, NL>>, Some(SportHref))), Some(<<"(2020">>))
TdBase == VehTd(Some(Anchor(<<NL, "Base", NL>>, Some(BaseHref))), Some(<<"(2020">>))
TdOneLine == VehTd(Some(Anchor(<<"Line">>, Some(BaseHref))), Some(<<"(2020">>))

Page(brands, lis, tds, specs_div, options_div) ==
    Doc(FALSE, brands, lis, tds, specs_div, options_div)

SpecsDiv == Some(<< Table(Some(CaptionOneLine), << RowKeyValue >>) >>)
OptionsDiv == Some(<< Table(Some(CaptionTwoLine), << RowPackage >>) >>)

\* the site: what each url serves
SiteOf(brands, lis, tds) ==
    (MakesPageUrl :> Page(brands, <<>>, <<>>, None, None))
    @@ (MakeUrl(AudiHref) :> Page(<<>>, lis, <<>>, None, None))
    @@ (MakeUrl(SeatHref) :> Page(<<>>, << LiA3 >>, <<>>, None, None))
    @@ (ModelUrl(A3Href) :> Page(<<>>, <<>>, tds, None, None))
    @@ (ModelUrl(A4Href) :> Page(<<>>, <<>>, << TdBase >>, None, None))
    @@ (TrimUrl(SportHref) :> Page(<<>>, <<>>, <<>>, SpecsDiv, None))
    @@ (EquipUrl(TrimUrl(SportHref)) :> Page(<<>>, <<>>, <<>>, None, OptionsDiv))
    @@ (TrimUrl(BaseHref) :> Page(<<>>, <<>>, <<>>, None, None))
    @@ (EquipUrl(TrimUrl(BaseHref)) :> Page(<<>>, <<>>, <<>>, None, OptionsDiv))

Sites ==
    { SiteOf(brands, lis, tds) :
        brands \in { << BrandAudi >>, << BrandAudi, BrandAudi, BrandSeat >>,
                     << BrandAudi, BrandNoLink >> },
        lis \in { << LiA3 >>, << LiA3, LiA3, LiA4 >>, << LiA3, LiNoName >>,
                  << LiNoLink >> },
        tds \in { << TdSport >>, << TdSport, TdSport, TdBase >>,
                  << TdSport, TdOneLine >> } }

\* session.get(url); html.text(): the page the site serves
Served(site, url) ==
    IF url \in DOMAIN site THEN site[url] ELSE Page(<<>>, <<>>, <<>>, None, None)

\* How a fetch can end: the page, TooManyRedirects, another client error
FetchOutcomes == {"ok", "redirects", "error"}

\* utils.get_source: TooManyRedirects gives the empty document, any other
\* exception leaves get_source
get_source(site, url, outcome) ==
    IF outcome = "ok" THEN [exc |-> "none", doc |-> Served(site, url)]
    ELSE IF outcome = "redirects" THEN [exc |-> "none", doc |-> EmptyDoc]
    ELSE [exc |-> "ClientError", doc |-> EmptyDoc]

\* How a statement sent to the store can end: done, or an exception
StoreOutcomes == {"ok", "fail"}

\* Where the user can interrupt a pass of get_children_sources that fetches:
\* not at all, after the fetches and before the UPDATE, after the UPDATE and
\* before the commit
FetchCuts == {"none", "fetched", "executed"}

\* a plausible slip: the markup already there is not looked at
AlreadyFound_Never(obj) == FALSE

\* if obj.children_source is not None: continue
AlreadyFound(obj) == obj.children_source # None

\* what one pass of the loop of get_children_sources leaves: the object, the
\* committed store, the store as the connection sees it when the UPDATE is left
\* uncommitted, the exception that ended the pass, the fetches issued
FetchResult(obj, store, uncommitted, exc, fetches) ==
    [obj |-> obj, store |-> store, inflight |-> uncommitted, exc |-> exc,
     fetches |-> fetches, skipped |-> FALSE]

Fetch(url, outcome) == [url |-> url, outcome |-> outcome]

\* utils.get_children_sources, the body of the loop for obj: o1 is how the
\* fetch of children_url ends, o2 that of "/equipamiento" (a Trim only), u how
\* the UPDATE ends, cut where the user interrupts
FetchPass(pages, store, obj, table, o1, o2, u, cut) ==
    LET r1 == get_source(pages, obj.children_url, o1)
        r2 == get_source(pages, EquipUrl(obj.children_url), o2)
        f1 == << Fetch(obj.children_url, o1) >>
        f2 == << Fetch(obj.children_url, o1), Fetch(EquipUrl(obj.children_url), o2) >>
        first == [obj EXCEPT !.children_source = Some(r1.doc)]
        doc == IF table = "trims" THEN AppendDoc(r1.doc, r2.doc) ELSE r1.doc
        full == [obj EXCEPT !.children_source = Some(doc)]
        fs == IF table = "trims" THEN f2 ELSE f1
    IN  IF AlreadyFound(obj)
        THEN [FetchResult(obj, store, None, "none", <<>>) EXCEPT !.skipped = TRUE]
        ELSE IF r1.exc # "none" THEN FetchResult(obj, store, None, r1.exc, f1)
        ELSE IF table = "trims" /\ r2.exc # "none"
        THEN FetchResult(first, store, None, r2.exc, f2)
        ELSE IF cut = "fetched"
        THEN FetchResult(full, store, None, "KeyboardInterrupt", fs)
        ELSE IF u = "fail"
        THEN FetchResult(full, store, None, "OperationalError", fs)
        ELSE IF cut = "executed"
        THEN FetchResult(full, store, Some(UpdateSource(store, table, obj.id, doc)),
                         "KeyboardInterrupt", fs)
        ELSE FetchResult(full, UpdateSource(store, table, obj.id, doc), None, "none", fs)

\* ------------------------------------------------------------- the state
MaxMainRuns == 2
MaxFetchFaults == 1
MaxDbFaults == 1
MaxInterrupts == 1

VARIABLES
    trims,      \* the parents_list handed to process_children_sources (Trim objects)
    runs,       \* calls of process_children_sources on that list so far
    lastcall,   \* per trim: exception and row trace of its latest get_specops
    calls,      \* per trim: number of get_specops calls so far
    log,        \* the log entries written
    site,       \* what the website serves, by url
    db,         \* the store: the tables makes, models, trims
    dbopen,     \* the store connection is open
    makes_list, \* km77.main: the hierarchy in memory
    pc,         \* km77.main: where the run stands
    stage,      \* the kind of the entities of the current stage list
    parents,    \* the current stage list (parents_list), as paths into makes_list
    pending,    \* the div.js-brand-item elements of the makes page
    idx,        \* position in the list the current loop walks
    mainruns,   \* runs of km77.main started so far
    fetchfaults, \* fetches that did not end with a page so far
    dbfaults,   \* statements the store answered with an exception so far
    interrupts, \* user interrupts so far
    inflight,   \* the store as the connection sees it while a statement is
                \* executed and not committed; None when nothing is pending
    fetched,    \* the fetches issued in this run, in order
    last        \* the latest pass of a loop: what it was about, how it ended

parsevars == <<trims, runs, lastcall, calls>>
mainvars == <<site, db, dbopen, makes_list, pc, stage, parents, pending, idx,
              mainruns, fetchfaults, dbfaults, interrupts, inflight, fetched, last>>
vars == <<trims, runs, lastcall, calls, log, site, db, dbopen, makes_list, pc,
          stage, parents, pending, idx, mainruns, fetchfaults, dbfaults,
          interrupts, inflight, fetched, last>>

NoCall == [exc |-> "none", trace |-> <<>>]

\* the record of a pass: the loop ("make", "fetch", "process"), the entity, the
\* exception that ended the pass, the fetches it issued, whether it was skipped
\* because the markup was already there, the children_source before the pass
Pass(op, path, name, exc, fetches, skipped, before) ==
    [op |-> op, path |-> path, name |-> name, exc |-> exc, fetches |-> fetches,
     skipped |-> skipped, before |-> before]
NoPass == Pass("none", <<>>, <<>>, "none", <<>>, FALSE, None)

\* km77.main not started: nothing in memory, an empty store
MainIdle ==
    /\ site = <<>>
    /\ db = EmptyDb
    /\ dbopen = FALSE
    /\ makes_list = <<>>
    /\ pc = "off"
    /\ stage = ""
    /\ parents = <<>>
    /\ pending = <<>>
    /\ idx = 0
    /\ mainruns = 0
    /\ fetchfaults = 0
    /\ dbfaults = 0
    /\ interrupts = 0
    /\ inflight = None
    /\ fetched = <<>>
    /\ last = NoPass

InitParse(lists) ==
    /\ trims \in lists
    /\ runs = 0
    /\ lastcall = [i \in DOMAIN trims |-> NoCall]
    /\ calls = [i \in DOMAIN trims |-> 0]
    /\ log = <<>>
    /\ MainIdle

RECURSIVE ConcatLogs(_, _)
ConcatLogs(rs, i) ==
    IF i > Len(rs) THEN <<>> ELSE rs[i].log \o ConcatLogs(rs, i + 1)

\* process_children_sources(parents_list) over a list of trims
ProcessChildrenSources ==
    /\ runs < MaxRuns
    /\ trims # <<>>
    /\ LET rs == [i \in DOMAIN trims |-> ProcessTrim(trims[i])] IN
       /\ trims' = [i \in DOMAIN trims |-> rs[i].trim]
       /\ lastcall' = [i \in DOMAIN trims |-> [exc |-> rs[i].exc, trace |-> rs[i].trace]]
       /\ calls' = [i \in DOMAIN trims |-> calls[i] + 1]
       /\ log' = log \o ConcatLogs(rs, 1)
    /\ runs' = runs + 1
    /\ UNCHANGED mainvars

NextParse == ProcessChildrenSources

InitRows == InitParse({ << NewTrim("t1", Some(m)) >> : m \in RowMarkups })
SpecRows == InitRows /\ [][NextParse]_vars

InitTables ==
    InitParse({ << NewTrim("t1", s) >> : s \in {None} \cup {Some(m) : m \in TableMarkups} })
SpecTables == InitTables /\ [][NextParse]_vars

\* ---------------------------------------------------------------- km77.main
Goto(p, s, ps, i) == [pc |-> p, stage |-> s, parents |-> ps, idx |-> i]

\* lines 113-134: all_trims; if not all(trim.specs ...): get_children_sources
EnterSpecs(ml) ==
    IF \E k \in 1..Len(TrimPaths(ml)) : GetObj(ml, TrimPaths(ml)[k]).specs = <<>>
    THEN Goto("gcs", "trims", TrimPaths(ml), 1)
    ELSE Goto("finish", "", <<>>, 0)

\* lines 94-108: all_models; if not all(model.trims ...): fetch, then process
EnterTrims(ml) ==
    IF \E k \in 1..Len(ModelPaths(ml)) : GetObj(ml, ModelPaths(ml)[k]).trims = <<>>
    THEN Goto("gcs", "models", ModelPaths(ml), 1)
    ELSE EnterSpecs(ml)

\* lines 78-89: if not all(make.models ...): fetch, then process
EnterModels(ml) ==
    IF \E m \in 1..Len(ml) : ml[m].models = <<>>
    THEN Goto("gcs", "makes", MakePaths(ml), 1)
    ELSE EnterTrims(ml)

Go(g) ==
    /\ pc' = g.pc
    /\ stage' = g.stage
    /\ parents' = g.parents
    /\ idx' = g.idx

\* the process starts: connect to the store, main() loads the hierarchy
LoadDatabase ==
    /\ pc = "start"
    /\ makes_list' = load_database(db)
    /\ IF load_database(db) = <<>>
       THEN Go(Goto("makes_page", "", <<>>, 0))
       ELSE Go(EnterModels(load_database(db)))
    /\ last' = NoPass
    /\ UNCHANGED <<site, db, dbopen, pending, mainruns, fetchfaults, dbfaults,
                   interrupts, inflight, fetched, log>>
    /\ UNCHANGED parsevars

Faults(fetches) == Cardinality({ i \in 1..Len(fetches) : fetches[i].outcome # "ok" })

\* lines 35-43: the makes page is fetched; an exception of the fetch other than
\* TooManyRedirects leaves main
FetchMakesPage ==
    /\ pc = "makes_page"
    /\ \E o \in FetchOutcomes :
          /\ fetchfaults + Faults(<< Fetch(MakesPageUrl, o) >>) <= MaxFetchFaults
          /\ fetchfaults' = fetchfaults + Faults(<< Fetch(MakesPageUrl, o) >>)
          /\ fetched' = Append(fetched, [path |-> <<>>, url |-> MakesPageUrl])
          /\ last' = Pass("page", <<>>, <<>>, get_source(site, MakesPageUrl, o).exc,
                          << Fetch(MakesPageUrl, o) >>, FALSE, None)
          /\ LET r == get_source(site, MakesPageUrl, o) IN
             IF r.exc # "none"
             THEN Go(Goto("crashed", "", <<>>, 0)) /\ pending' = <<>>
             ELSE /\ pending' = r.doc.brands
                  /\ IF r.doc.brands = <<>>
                     THEN Go(EnterModels(makes_list))
                     ELSE Go(Goto("gen_makes", "", <<>>, 1))
    /\ UNCHANGED <<site, db, dbopen, makes_list, mainruns, dbfaults, interrupts,
                   inflight, log>>
    /\ UNCHANGED parsevars

\* Where the user can interrupt the creation of a make: not at all, before the
\* INSERT is sent, after it and before the commit
MakeCuts == {"none", "query", "executed"}

\* what one pass of the loop over the makes of the page leaves
MakeResult(ml, store, uncommitted, exc, faults, entries) ==
    [makes |-> ml, store |-> store, inflight |-> uncommitted, exc |-> exc,
     faults |-> faults, log |-> entries]

\* lines 52-69, the body of the loop for html_element: q is how the id query
\* ends, i how the insert ends, cut where the user interrupts
MakePass(ml, store, html_element, q, i, cut) ==
    LET a_tag == html_element.a
        make_name == IF a_tag # None THEN a_tag[1].text ELSE html_element.text
        next_id == IF q = "fail" THEN 1 ELSE get_next_id(store, "makes")
        make_obj == NewMake(next_id, make_name, MakeUrl(a_tag[1].href[1]))
        stored == insert_into_database(store, "makes", 0, make_name,
                                       MakeUrl(a_tag[1].href[1]))
        l1 == IF q = "fail"
              THEN << ExceptionLog("Error getting the next id for", "makes") >>
              ELSE <<>>
        l2 == IF i = "fail" THEN Append(l1, ExceptionLog("Error inserting", make_name))
              ELSE l1
        nq == IF q = "fail" THEN 1 ELSE 0
    IN  IF HasName(ml, make_name) THEN MakeResult(ml, store, None, "none", 0, <<>>)
        ELSE IF a_tag = None THEN MakeResult(ml, store, None, "TypeError", 0, <<>>)
        ELSE IF a_tag[1].href = None THEN MakeResult(ml, store, None, "KeyError", 0, <<>>)
        ELSE IF cut = "query"
        THEN MakeResult(Append(ml, make_obj), store, None, "KeyboardInterrupt", nq, l1)
        ELSE IF i = "fail"
        THEN MakeResult(Append(ml, make_obj), store, None, "none", nq + 1, l2)
        ELSE IF cut = "executed"
        THEN MakeResult(Append(ml, make_obj), store, Some(stored),
                        "KeyboardInterrupt", nq, l1)
        ELSE MakeResult(Append(ml, make_obj), stored, None, "none", nq, l1)

\* the user interrupts the run inside a pass: the pass is left where it stands
Interrupted ==
    /\ interrupts < MaxInterrupts
    /\ interrupts' = interrupts + 1
    /\ pc' = "interrupted"
    /\ UNCHANGED <<stage, parents, idx>>

\* the effect of a pass of the makes loop with result r
MakeStep(r) ==
    /\ dbfaults + r.faults <= MaxDbFaults
    /\ dbfaults' = dbfaults + r.faults
    /\ makes_list' = r.makes
    /\ db' = r.store
    /\ inflight' = r.inflight
    /\ log' = log \o r.log
    /\ last' = Pass("make", <<idx>>, <<>>, r.exc, <<>>, FALSE, None)
    /\ IF r.exc = "KeyboardInterrupt" THEN Interrupted
       ELSE /\ UNCHANGED interrupts
            /\ IF r.exc # "none" THEN Go(Goto("crashed", "", <<>>, 0))
               ELSE IF idx = Len(pending) THEN Go(EnterModels(r.makes))
               ELSE Go(Goto("gen_makes", "", <<>>, idx + 1))

\* lines 47-69: one pass of the loop over the makes of the page
GenerateMake ==
    /\ pc = "gen_makes"
    /\ \E q, i \in StoreOutcomes, cut \in MakeCuts :
          MakeStep(MakePass(makes_list, db, pending[idx], q, i, cut))
    /\ UNCHANGED <<site, dbopen, pending, mainruns, fetchfaults, fetched>>
    /\ UNCHANGED parsevars

\* every exception leaves the loop body of a stage
Escapes_Any(exc) == exc # "none"

\* except Exception: the exceptions that the handler of a stage loop does not
\* catch and that leave the loop (KeyboardInterrupt is a BaseException)
Escapes(exc) == exc = "KeyboardInterrupt"

\* the loop of a stage list is over: what main does next
AfterFetch(ml) ==
    IF stage = "trims" THEN Goto("finish", "", <<>>, 0)
    ELSE Goto("pcs", stage, parents, 1)
AfterProcess(ml) ==
    IF stage = "makes" THEN EnterTrims(ml) ELSE EnterSpecs(ml)

\* the effect of a pass of get_children_sources on parents_list[idx] with
\* result r: except Exception logs and the loop goes on
FetchStep(path, r) ==
    /\ fetchfaults + Faults(r.fetches) <= MaxFetchFaults
    /\ fetchfaults' = fetchfaults + Faults(r.fetches)
    /\ dbfaults + (IF r.exc = "OperationalError" THEN 1 ELSE 0) <= MaxDbFaults
    /\ dbfaults' = dbfaults + (IF r.exc = "OperationalError" THEN 1 ELSE 0)
    /\ makes_list' = SetObj(makes_list, path, r.obj)
    /\ db' = r.store
    /\ inflight' = r.inflight
    /\ fetched' = fetched \o [k \in 1..Len(r.fetches) |->
                                [path |-> path, url |-> r.fetches[k].url]]
    /\ last' = Pass("fetch", path, r.obj.name, r.exc, r.fetches, r.skipped,
                    GetObj(makes_list, path).children_source)
    /\ log' = IF r.exc = "none" \/ Escapes(r.exc) THEN log
              ELSE Append(log, ExceptionLog("Error getting children source for",
                                            r.obj.name))
    /\ IF Escapes(r.exc) THEN Interrupted
       ELSE /\ UNCHANGED interrupts
            /\ IF idx = Len(parents) THEN Go(AfterFetch(makes_list))
               ELSE Go(Goto("gcs", stage, parents, idx + 1))

\* utils.get_children_sources: one pass of the loop, for parents_list[idx]
GetChildrenSource ==
    /\ pc = "gcs"
    /\ \E o1, o2 \in FetchOutcomes, u \in StoreOutcomes, cut \in FetchCuts :
          FetchStep(parents[idx],
                    FetchPass(site, db, GetObj(makes_list, parents[idx]),
                              TableOf(parents[idx]), o1, o2, u, cut))
    /\ UNCHANGED <<site, dbopen, pending, mainruns>>
    /\ UNCHANGED parsevars

\* the number of list items a pass of discovery can meet in the markup of obj
Items(obj) ==
    IF obj.children_source = None THEN 0
    ELSE Len(obj.children_source[1].lis) + Len(obj.children_source[1].tds)

\* the effect of a pass of process_children_sources on parents_list[idx] with
\* result r: except Exception logs and the loop goes on
ProcessStep(path, r) ==
    /\ dbfaults + r.faults <= MaxDbFaults
    /\ dbfaults' = dbfaults + r.faults
    /\ makes_list' = SetObj(makes_list, path, r.obj)
    /\ db' = r.store
    /\ inflight' = r.inflight
    /\ last' = Pass("process", path, r.obj.name, r.exc, <<>>, FALSE,
                    r.obj.children_source)
    /\ log' = IF r.exc = "none" \/ Escapes(r.exc) THEN log \o r.log
              ELSE Append(log \o r.log, ExceptionLog("Error getting", r.obj.name))
    /\ IF Escapes(r.exc) THEN Interrupted
       ELSE /\ UNCHANGED interrupts
            /\ IF idx = Len(parents)
               THEN Go(AfterProcess(SetObj(makes_list, path, r.obj)))
               ELSE Go(Goto("pcs", stage, parents, idx + 1))

\* utils.process_children_sources: one pass of the loop, for a Make or a Model
ProcessChild ==
    /\ pc = "pcs"
    /\ \E plan \in Plans(Items(GetObj(makes_list, parents[idx]))) :
          ProcessStep(parents[idx],
                      IF stage = "makes"
                      THEN get_models(GetObj(makes_list, parents[idx]), db, plan)
                      ELSE get_trims(GetObj(makes_list, parents[idx]), db, plan))
    /\ UNCHANGED <<site, dbopen, pending, mainruns, fetchfaults, fetched>>
    /\ UNCHANGED parsevars

\* lines 132-134: logger.info("Done."); await db.close()
Finish ==
    /\ pc = "finish"
    /\ dbopen' = FALSE
    /\ Go(Goto("done", "", <<>>, 0))
    /\ last' = NoPass
    /\ UNCHANGED <<site, db, makes_list, pending, mainruns, fetchfaults, dbfaults,
                   interrupts, inflight, fetched, log>>
    /\ UNCHANGED parsevars

\* the user interrupts the run between two passes
Interrupt ==
    /\ pc \in {"start", "makes_page", "gen_makes", "gcs", "pcs", "finish"}
    /\ Interrupted
    /\ last' = NoPass
    /\ UNCHANGED <<site, db, dbopen, makes_list, pending, mainruns, fetchfaults,
                   dbfaults, inflight, fetched, log>>
    /\ UNCHANGED parsevars

\* the interrupt handler without db.close()
CloseOnInterrupt_NoClose ==
    /\ pc = "interrupted"
    /\ log' = Append(log, [level |-> "info", msg |-> "User interrupted the program.",
                           name |-> <<>>])
    /\ pc' = "stopped"
    /\ UNCHANGED <<site, db, dbopen, inflight, makes_list, stage, parents, pending,
                   idx, mainruns, fetchfaults, dbfaults, interrupts, fetched, last>>
    /\ UNCHANGED parsevars

\* __main__, except KeyboardInterrupt: the connection is closed, what it had
\* not committed is rolled back, and the process exits
CloseOnInterrupt ==
    /\ pc = "interrupted"
    /\ dbopen' = FALSE
    /\ inflight' = None
    /\ log' = Append(log, [level |-> "info", msg |-> "User interrupted the program.",
                           name |-> <<>>])
    /\ pc' = "stopped"
    /\ UNCHANGED <<site, db, makes_list, stage, parents, pending, idx, mainruns,
                   fetchfaults, dbfaults, interrupts, fetched, last>>
    /\ UNCHANGED parsevars

\* the script is started again on the same store: a new process, a new log file
Rerun ==
    /\ pc \in {"done", "crashed", "stopped"}
    /\ mainruns < MaxMainRuns
    /\ mainruns' = mainruns + 1
    /\ makes_list' = <<>>
    /\ pending' = <<>>
    /\ dbopen' = TRUE
    /\ log' = <<>>
    /\ fetched' = <<>>
    /\ last' = NoPass
    /\ Go(Goto("start", "", <<>>, 0))
    /\ UNCHANGED <<site, db, fetchfaults, dbfaults, interrupts, inflight>>
    /\ UNCHANGED parsevars

Init ==
    /\ site \in Sites
    /\ db = EmptyDb
    /\ dbopen = TRUE
    /\ makes_list = <<>>
    /\ pc = "start"
    /\ stage = ""
    /\ parents = <<>>
    /\ pending = <<>>
    /\ idx = 0
    /\ mainruns = 1
    /\ fetchfaults = 0
    /\ dbfaults = 0
    /\ interrupts = 0
    /\ inflight = None
    /\ fetched = <<>>
    /\ last = NoPass
    /\ log = <<>>
    /\ trims = <<>>
    /\ runs = 0
    /\ lastcall = <<>>
    /\ calls = <<>>

Next ==
    \/ LoadDatabase
    \/ FetchMakesPage
    \/ GenerateMake
    \/ GetChildrenSource
    \/ ProcessChild
    \/ Finish
    \/ Interrupt
    \/ CloseOnInterrupt
    \/ Rerun

Spec == Init /\ [][Next]_vars

\* ------------------------------------------------------ get_trims_source.py
MaxScriptRuns == 2

\* "SELECT * FROM trims WHERE children_source IS NULL": the empty string is
\* not NULL
IsNull(col) == col = None

SelectNull(rows) == SelectSeq(rows, LAMBDA r : IsNull(r.children_source))

\* the script is not running: nothing of km77.main in memory
ScriptIdle ==
    /\ makes_list = <<>>
    /\ stage = ""
    /\ parents = <<>>
    /\ pending = <<>>
    /\ idx = 0
    /\ fetchfaults = 0
    /\ dbfaults = 0
    /\ interrupts = 0
    /\ inflight = None
    /\ fetched = <<>>
    /\ last = NoPass
    /\ log = <<>>
    /\ trims = <<>>
    /\ runs = 0
    /\ lastcall = <<>>
    /\ calls = <<>>

\* The stores the script can find: what km77.main leaves for the make Audi and
\* its model A3 once get_trims has created the trims of the cells tds ...
TrimsStore(tds) ==
    get_trims([NewModel(1, <<"A3">>, ModelUrl(A3Href)) EXCEPT
                  !.children_source = Some(Page(<<>>, <<>>, tds, None, None))],
              insert_into_database(
                  insert_into_database(EmptyDb, "makes", 0, <<"Audi">>, MakeUrl(AudiHref)),
                  "models", 1, <<"A3">>, ModelUrl(A3Href)),
              NoPlan).store

\* ... and get_children_sources has come to a trim or not: its column is NULL
\* (not fetched, or the pass failed), the empty string (both fetches ended in
\* redirect exhaustion) or the two pages
ColumnKinds == {"null", "empty", "pages"}
Column(pages, url, kind) ==
    IF kind = "null" THEN None
    ELSE IF kind = "empty" THEN Some(ToText(AppendDoc(EmptyDoc, EmptyDoc)))
    ELSE Some(ToText(AppendDoc(Served(pages, url), Served(pages, EquipUrl(url)))))

WithColumns(pages, store, kinds) ==
    [store EXCEPT
       !.trims = [i \in 1..Len(store.trims) |->
                    [store.trims[i] EXCEPT
                       !.children_source = Column(pages, store.trims[i].url, kinds[i])]]]

ScriptStores(pages) ==
    UNION { { WithColumns(pages, TrimsStore(tds), kinds) :
                kinds \in [1..Len(TrimsStore(tds).trims) -> ColumnKinds] } :
            tds \in { << TdSport >>, << TdSport, TdBase >> } }

\* lines 26-30: the trims to fetch are selected once, before the loop
SelectTrims ==
    /\ pc = "script_start"
    /\ pending' = SelectNull(db.trims)
    /\ pc' = IF SelectNull(db.trims) = <<>> THEN "script_done" ELSE "script_loop"
    /\ idx' = IF SelectNull(db.trims) = <<>> THEN 0 ELSE 1
    /\ last' = NoPass
    /\ log' = Append(log, [level |-> "info", msg |-> "Got trims from the database.",
                           name |-> <<>>])
    /\ UNCHANGED <<site, db, dbopen, makes_list, stage, parents, mainruns,
                   fetchfaults, dbfaults, interrupts, inflight, fetched>>
    /\ UNCHANGED parsevars

\* the effect of a pass of the loop for the row trim with fetch result r and
\* UPDATE outcome u: no try block, an exception leaves main and the process;
\* `if not trim_source` is never taken, a BeautifulSoup object is always true
TrimSourceStep(trim, o, r, u) ==
    /\ fetchfaults + Faults(<< Fetch(trim.url, o) >>) <= MaxFetchFaults
    /\ fetchfaults' = fetchfaults + Faults(<< Fetch(trim.url, o) >>)
    /\ dbfaults + (IF r.exc = "none" /\ u = "fail" THEN 1 ELSE 0) <= MaxDbFaults
    /\ dbfaults' = dbfaults + (IF r.exc = "none" /\ u = "fail" THEN 1 ELSE 0)
    /\ fetched' = Append(fetched, [path |-> <<trim.id>>, url |-> trim.url])
    /\ last' = Pass("script", <<trim.id>>, trim.name,
                    IF r.exc # "none" THEN r.exc
                    ELSE IF u = "fail" THEN "OperationalError" ELSE "none",
                    << Fetch(trim.url, o) >>, FALSE, trim.children_source)
    /\ db' = IF r.exc = "none" /\ u = "ok"
             THEN UpdateSource(db, "trims", trim.id, r.doc) ELSE db
    /\ pc' = IF r.exc # "none" \/ u = "fail" THEN "script_crashed"
             ELSE IF idx = Len(pending) THEN "script_done" ELSE "script_loop"
    /\ idx' = IF r.exc = "none" /\ u = "ok" /\ idx < Len(pending) THEN idx + 1 ELSE idx

\* lines 33-52: one pass of the loop, for trims[idx]
TrimSourcePass ==
    /\ pc = "script_loop"
    /\ \E o \in FetchOutcomes, u \in StoreOutcomes :
          TrimSourceStep(pending[idx], o, get_source(site, pending[idx].url, o), u)
    /\ UNCHANGED <<site, dbopen, makes_list, stage, parents, pending, mainruns,
                   interrupts, inflight, log>>
    /\ UNCHANGED parsevars

\* __main__, except KeyboardInterrupt: between two passes nothing is
\* uncommitted; the connection is closed and the process exits
ScriptInterrupt ==
    /\ pc \in {"script_start", "script_loop"}
    /\ interrupts < MaxInterrupts
    /\ interrupts' = interrupts + 1
    /\ dbopen' = FALSE
    /\ pc' = "script_stopped"
    /\ last' = NoPass
    /\ log' = Append(log, [level |-> "info", msg |-> "User interrupted the program.",
                           name |-> <<>>])
    /\ UNCHANGED <<site, db, makes_list, stage, parents, pending, idx, mainruns,
                   fetchfaults, dbfaults, inflight, fetched>>
    /\ UNCHANGED parsevars

\* the script is started again on the same store
ScriptRerun ==
    /\ pc \in {"script_done", "script_crashed", "script_stopped"}
    /\ mainruns < MaxScriptRuns
    /\ mainruns' = mainruns + 1
    /\ pc' = "script_start"
    /\ dbopen' = TRUE
    /\ pending' = <<>>
    /\ idx' = 0
    /\ fetched' = <<>>
    /\ last' = NoPass
    /\ log' = <<>>
    /\ UNCHANGED <<site, db, makes_list, stage, parents, fetchfaults, dbfaults,
                   interrupts, inflight>>
    /\ UNCHANGED parsevars

InitScript ==
    /\ site \in Sites
    /\ db \in ScriptStores(site)
    /\ dbopen = TRUE
    /\ pc = "script_start"
    /\ mainruns = 1
    /\ ScriptIdle

NextScript ==
    \/ SelectTrims
    \/ TrimSourcePass
    \/ ScriptInterrupt
    \/ ScriptRerun

SpecScript == InitScript /\ [][NextScript]_vars

\* =================================================================== claims
\* the rows visited by the latest get_specops of every trim of the list
Entries ==
    UNION { { lastcall[i].trace[j] : j \in 1..Len(lastcall[i].trace) } : i \in DOMAIN trims }

\* the tables of a region that have at least one row and a caption
Qualifying(div) ==
    IF div = None THEN <<>>
    ELSE SelectSeq(div[1], LAMBDA t : t.rows # <<>> /\ t.caption # None)

\* the tables of a document, specs region first
AllTables(src) ==
    (IF src.specs_div = None THEN <<>> ELSE src.specs_div[1])
    \o (IF src.options_div = None THEN <<>> ELSE src.options_div[1])

\* C1: a second get_specops on the same trim leaves specs and options as the
\* first call left them.
C1_SecondCallIdempotent ==
    [][\A i \in DOMAIN trims :
          calls[i] >= 1 =>
             /\ trims'[i].specs = trims[i].specs
             /\ trims'[i].options = trims[i].options]_vars

\* C2: a trim whose get_specops raised (the failure caught by
\* process_children_sources) has empty specs and empty options.
C2_FailedTrimLeftEmpty ==
    \A i \in DOMAIN trims :
        lastcall[i].exc # "none" => trims[i].specs = <<>> /\ trims[i].options = <<>>

\* the trims of the hierarchy in memory
MainTrims == { GetObj(makes_list, TrimPaths(makes_list)[k]) : k \in 1..Len(TrimPaths(makes_list)) }

\* C3: when main reaches "Done", get_specops has run once for every trim that
\* has markup: its specs and options are what one call of the parser leaves.
C3_ParserRanForEveryTrim ==
    pc = "done" =>
        \A t \in MainTrims :
            t.children_source # None =>
                /\ t.specs = GetSpecops([t EXCEPT !.specs = <<>>, !.options = <<>>]).specs
                /\ t.options = GetSpecops([t EXCEPT !.specs = <<>>, !.options = <<>>]).options

\* the write data[name] = {price, addons} of a package row, nothing else changed
C4_PackageWrite(e) ==
    \E k \in 1..Len(e.dataAfter) :
        LET v == e.dataAfter[k].val IN
        /\ v.kind = "dict"
        /\ Keys(v.items) = <<PRICE, ADDONS>>
        /\ v.items[1].val = Str(Strip(e.row.tds[2].text))
        /\ v.items[2].val.kind = "list"
        /\ Len(e.dataAfter) \in {Len(e.dataBefore), Len(e.dataBefore) + 1}
        /\ \A n \in 1..Len(e.dataBefore) :
              n # k => e.dataAfter[n] = e.dataBefore[n]

\* C4: every visited row with exactly three td cells is handled by the package
\* branch, with or without a th; it writes data[name] = {price, addons} and
\* leaves last_section_key unchanged.
C4_RowPrecedence ==
    \A e \in Entries :
        Len(e.row.tds) = 3 =>
            /\ e.branch = "package"
            /\ e.exc = "none"
            /\ e.after = e.before
            /\ C4_PackageWrite(e)

\* a three-td row that also has a th was visited while a section key was set
C4_Witness ==
    \E e \in Entries :
        Len(e.row.tds) = 3 /\ e.row.th # None /\ e.before # None /\ e.branch = "package"

\* a row of none of the documented shapes
C5_ShapeMiss(e) ==
    /\ e.row.th = None
    /\ \/ e.row.tds = <<>>
       \/ Len(e.row.tds) = 1
       \/ Len(e.row.tds) = 2 /\ e.before = None

\* C5: a row of no documented shape is skipped: it raises nothing and changes
\* neither data nor last_section_key, and the parse goes on.
C5_ShapeMissRowSkipped ==
    \A e \in Entries :
        C5_ShapeMiss(e) =>
            e.exc = "none" /\ e.dataAfter = e.dataBefore /\ e.after = e.before

\* a table whose rows are a header-only row and two continuation rows with
\* two different sub-keys
C6_Shape(t) ==
    /\ t.caption # None
    /\ Len(t.rows) = 3
    /\ t.rows[1].th # None /\ t.rows[1].tds = <<>>
    /\ \A n \in {2, 3} : t.rows[n].th = None /\ Len(t.rows[n].tds) = 2
    /\ SecondLine(t.rows[2].tds[1].text) # SecondLine(t.rows[3].tds[1].text)

\* one record, one top-level key (the header label), two sub-entries in order
C6_Bound(i, t) ==
    LET recs == trims[i].specs \o trims[i].options IN
    /\ Len(recs) = 1
    /\ Len(recs[1].data) = 1
    /\ recs[1].data[1].key = SecondLine(t.rows[1].th[1])
    /\ recs[1].data[1].val.kind = "dict"
    /\ recs[1].data[1].val.items =
          << [key |-> SecondLine(t.rows[2].tds[1].text),
              val |-> Str(SecondLine(t.rows[2].tds[2].text))],
             [key |-> SecondLine(t.rows[3].tds[1].text),
              val |-> Str(SecondLine(t.rows[3].tds[2].text))] >>

C6_Case(i) ==
    /\ calls[i] = 1
    /\ trims[i].children_source # None
    /\ Len(AllTables(trims[i].children_source[1])) = 1
    /\ C6_Shape(AllTables(trims[i].children_source[1])[1])

C6_CaptionResolves(src) ==
    src.specs_div # None \/ HasNL(AllTables(src)[1].caption[1])

C7_SecondLineRule ==
    \A e \in Entries :
        /\ (e.branch = "section" /\ e.row.th # None) =>
              e.exc = "none" /\ e.after = Some(SecondLine(e.row.th[1]))
        /\ (/\ e.branch = "continuation" /\ Len(e.row.tds) = 2 /\ e.before # None
            /\ Lookup(e.dataBefore, e.before[1]).kind = "dict") =>
              /\ e.exc = "none"
              /\ LET sub == Lookup(e.dataAfter, e.before[1]).items
                     k == SecondLine(e.row.tds[1].text)
                 IN  HasKey(sub, k)
                     /\ Lookup(sub, k) = Str(SecondLine(e.row.tds[2].text))
        /\ (/\ e.branch = "keyvalue" /\ RightTds(e.row.tds) # <<>>
            /\ ~HasEnvLabel(e.row.th[1])) =>
              /\ e.exc = "none"
              /\ HasKey(e.dataAfter, SecondLine(e.row.th[1]))
              /\ Lookup(e.dataAfter, SecondLine(e.row.th[1]))
                    = Str(SecondLine(RightTds(e.row.tds)[1].text))

\* C8: with only the options container, specs stays empty and every captioned
\* table with rows gives its record to options under the options caption rule;
\* with only the specs container, the same for specs; no list ever holds more
\* records than its own region has such tables.
C8_RegionIndependence ==
    \A i \in DOMAIN trims :
        (calls[i] = 1 /\ trims[i].children_source # None) =>
            LET src == trims[i].children_source[1]
                qs == Qualifying(src.specs_div)
                qo == Qualifying(src.options_div)
            IN  /\ Len(trims[i].specs) <= Len(qs)
                /\ Len(trims[i].options) <= Len(qo)
                /\ (src.specs_div = None /\ src.options_div # None) =>
                      /\ trims[i].specs = <<>>
                      /\ Len(trims[i].options) = Len(qo)
                      /\ \A k \in 1..Len(qo) :
                            trims[i].options[k].caption
                               = Strip(Split(qo[k].caption[1])[2])
                /\ (src.options_div = None /\ src.specs_div # None) =>
                      /\ trims[i].options = <<>>
                      /\ Len(trims[i].specs) = Len(qs)
                      /\ \A k \in 1..Len(qs) :
                            trims[i].specs[k].caption = Strip(qs[k].caption[1])

\* the document without its caption-less tables
WithoutCaptionless(src) ==
    [src EXCEPT
       !.specs_div = IF @ = None THEN None
                     ELSE Some(SelectSeq(@[1], LAMBDA t : t.caption # None)),
       !.options_div = IF @ = None THEN None
                       ELSE Some(SelectSeq(@[1], LAMBDA t : t.caption # None))]

\* C9: the caption-less tables give no record and do not stop the parse: the
\* first get_specops leaves exactly what it leaves on the same document with
\* those tables removed, and no list holds more records than its region has
\* captioned tables with rows.
C9_CaptionlessDropped ==
    \A i \in DOMAIN trims :
        (calls[i] = 1 /\ trims[i].children_source # None) =>
            LET src == trims[i].children_source[1]
                r == GetSpecops(NewTrim(trims[i].name, Some(WithoutCaptionless(src))))
            IN  /\ trims[i].specs = r.specs
                /\ trims[i].options = r.options
                /\ lastcall[i].exc = r.exc
                /\ Len(trims[i].specs) <= Len(Qualifying(src.specs_div))
                /\ Len(trims[i].options) <= Len(Qualifying(src.options_div))

\* a caption-less table with rows came first in the specs region; the table
\* after it and a table of the options region gave their records
C9_Witness ==
    \E i \in DOMAIN trims :
        /\ calls[i] = 1 /\ trims[i].children_source # None
        /\ LET src == trims[i].children_source[1] IN
           /\ src.specs_div # None /\ src.options_div # None
           /\ Len(src.specs_div[1]) = 2
           /\ src.specs_div[1][1].caption = None /\ src.specs_div[1][1].rows # <<>>
           /\ Len(trims[i].specs) = 1
           /\ Len(trims[i].options) >= 1

\* the record of one table, read on its own
C10_Record(t, isSpecs) ==
    [caption |-> CaptionText(t, isSpecs).caption,
     data |-> ParseRows(t.rows, <<>>, None, <<>>, [region |-> "", table |-> 0]).data]

\* C10: after a get_specops that raised nothing on a trim with empty lists,
\* specs (options) holds one record per table of its region that has a row and
\* a caption, in document order; a table without rows gives nothing.
C10_OneRecordPerTable ==
    \A i \in DOMAIN trims :
        (calls[i] = 1 /\ trims[i].children_source # None /\ lastcall[i].exc = "none") =>
            LET src == trims[i].children_source[1]
                qs == Qualifying(src.specs_div)
                qo == Qualifying(src.options_div)
            IN  /\ Len(trims[i].specs) = Len(qs)
                /\ Len(trims[i].options) = Len(qo)
                /\ \A k \in 1..Len(qs) : trims[i].specs[k] = C10_Record(qs[k], TRUE)
                /\ \A k \in 1..Len(qo) : trims[i].options[k] = C10_Record(qo[k], FALSE)

\* two different tables of the specs region gave two records, in their order,
\* and a table without rows stood in the options region
C10_Witness ==
    \E i \in DOMAIN trims :
        /\ calls[i] = 1 /\ trims[i].children_source # None /\ lastcall[i].exc = "none"
        /\ Len(trims[i].specs) = 2
        /\ trims[i].specs[1] # trims[i].specs[2]
        /\ trims[i].children_source[1].options_div # None
        /\ \E k \in 1..Len(trims[i].children_source[1].options_div[1]) :
              trims[i].children_source[1].options_div[1][k].rows = <<>>

\* the row stored the value v under one key and changed nothing else
C11_Stored(e, v) ==
    /\ e.exc = "none"
    /\ Len(e.dataAfter) \in {Len(e.dataBefore), Len(e.dataBefore) + 1}
    /\ \E k \in 1..Len(e.dataAfter) :
          /\ e.dataAfter[k].val = Str(v)
          /\ \A n \in 1..Len(e.dataBefore) : n # k => e.dataAfter[n] = e.dataBefore[n]

\* C11: a key/value row (a th, a td, not three td) whose label contains
\* "Distintivo ambiental" stores the alt of the image of its value cell, never
\* the cell's text; every other key/value row stores the text of its
\* right-aligned cell (its second line, or the text as it is).
C11_EnvLabelValue ==
    \A e \in Entries :
        (e.row.th # None /\ e.row.tds # <<>> /\ Len(e.row.tds) # num_tds) =>
            /\ (/\ HasEnvLabel(e.row.th[1])
                /\ e.row.tds[1].img # None /\ e.row.tds[1].img[1] # None) =>
                  C11_Stored(e, e.row.tds[1].img[1][1])
            /\ (~HasEnvLabel(e.row.th[1]) /\ RightTds(e.row.tds) # <<>>) =>
                  C11_Stored(e, SecondLine(RightTds(e.row.tds)[1].text))

\* no two entries of the list have the same name
DistinctNames(objs) ==
    \A i, j \in 1..Len(objs) : i # j => objs[i].name # objs[j].name

\* no two rows of the table have the same parent and the same name
DistinctRows(rows) ==
    \A i, j \in 1..Len(rows) :
        i # j => ~(rows[i].parent = rows[j].parent /\ rows[i].name = rows[j].name)

\* C12: whatever was discovered so far, no parent has two children of the same
\* name in memory (makes of the list, models of a make, trims of a model), and
\* no second row of the same parent and name was inserted into the store.
C12_NoDuplicateChildren ==
    /\ DistinctNames(makes_list)
    /\ \A m \in 1..Len(makes_list) :
          /\ DistinctNames(makes_list[m].models)
          /\ \A x \in 1..Len(makes_list[m].models) :
                DistinctNames(makes_list[m].models[x].trims)
    /\ DistinctRows(db.makes) /\ DistinctRows(db.models) /\ DistinctRows(db.trims)

\* in a second run the list page of a make, which lists a name twice, was
\* processed again: the make still has one model of each name, and so has the store
C12_Witness ==
    /\ mainruns = 2
    /\ last.op = "process" /\ Len(last.path) = 1 /\ last.exc = "none"
    /\ LET make == makes_list[last.path[1]] IN
       /\ make.children_source # None
       /\ make.children_source[1].lis = << LiA3, LiA3, LiA4 >>
       /\ Len(make.models) = 2
       /\ Len(RowsOf(db.models, make.id)) = 2

\* the objects of the hierarchy at the paths of a list
ObjsAt(paths) == [k \in 1..Len(paths) |-> GetObj(makes_list, paths[k])]

DistinctIds(objs) ==
    \A i, j \in 1..Len(objs) : i # j => objs[i].id # objs[j].id

\* C13: the makes in memory have pairwise distinct ids, and so have the models
\* and the trims, whatever was discovered so far and whichever id query or
\* insert failed in between.
C13_DistinctIds ==
    /\ DistinctIds(makes_list)
    /\ DistinctIds(ObjsAt(ModelPaths(makes_list)))
    /\ DistinctIds(ObjsAt(TrimPaths(makes_list)))

\* C14: a pass of get_children_sources on a node whose children_source is set
\* issues no fetch and leaves the node's markup in memory and the store as they
\* are; and within one run no url of a node is fetched twice.
C14_FetchAtMostOnce ==
    [][/\ (/\ pc = "gcs" /\ last'.op = "fetch"
           /\ GetObj(makes_list, parents[idx]).children_source # None) =>
             /\ last'.skipped /\ last'.fetches = <<>>
             /\ fetched' = fetched
             /\ makes_list' = makes_list
             /\ db' = db
       /\ \A i, j \in 1..Len(fetched') : i # j => fetched'[i] # fetched'[j]]_vars

\* in a second run a node came back from the store with its markup and its
\* pass was skipped, after another node of the list was fetched
C14_Witness ==
    /\ mainruns = 2
    /\ last.op = "fetch" /\ last.skipped
    /\ last.before # None
    /\ fetched # <<>>
    /\ \E i \in 1..Len(db[TableOf(last.path)]) :
          FromColumn(db[TableOf(last.path)][i].children_source) = last.before

\* the page of a fetch as an empty-markup recovery leaves it: the page served
\* when the fetch went well, the empty document when it failed
Recovered(f) == IF f.outcome = "ok" THEN Served(site, f.url) ELSE EmptyDoc

\* the markup of the entity of a pass whose fetches are fs, every failed fetch
\* recovered as empty markup
RecoveredSource(table, url, fs) ==
    IF table = "trims"
    THEN AppendDoc(Recovered(fs[1]),
                   IF Len(fs) > 1 THEN Recovered(fs[2]) ELSE Served(site, EquipUrl(url)))
    ELSE Recovered(fs[1])

\* discovery or parsing on the object raises nothing and adds nothing
AddsNothing(obj, table) ==
    IF table = "makes"
    THEN get_models(obj, db, NoPlan).exc = "none"
         /\ get_models(obj, db, NoPlan).obj.models = obj.models
    ELSE IF table = "models"
    THEN get_trims(obj, db, NoPlan).exc = "none"
         /\ get_trims(obj, db, NoPlan).obj.trims = obj.trims
    ELSE GetSpecops(obj).exc = "none"
         /\ GetSpecops(obj).specs = obj.specs /\ GetSpecops(obj).options = obj.options

\* C15: a pass of get_children_sources in which a fetch failed, by a network
\* error or by redirect exhaustion, leaves the entity with a markup that is set
\* and holds the empty document for the failed fetch, the run goes on, and
\* when the markup is empty a later discovery or parse raises nothing and adds
\* nothing; a failed fetch of the makes page does not stop the run either.
C15_FetchFailureEmptyMarkup ==
    [][/\ (pc = "gcs" /\ last'.op = "fetch" /\ Faults(last'.fetches) > 0) =>
             LET obj == GetObj(makes_list', parents[idx])
                 table == TableOf(parents[idx])
             IN  /\ obj.children_source
                       = Some(RecoveredSource(table, obj.children_url, last'.fetches))
                 /\ pc' # "crashed"
                 /\ obj.children_source = Some(EmptyDoc) => AddsNothing(obj, table)
       /\ (pc = "makes_page" /\ last'.op = "page" /\ Faults(last'.fetches) > 0) =>
             pc' # "crashed"]_vars

\* C16: after get_specops has run on a trim whose markup holds neither the
\* specs container nor the options container, the trim has no record in specs
\* or options, the call raised nothing, and the log holds an entry for the trim
\* reporting the miss.
C16_RegionMissLogged ==
    \A i \in DOMAIN trims :
        (/\ calls[i] > 0
         /\ trims[i].children_source # None
         /\ trims[i].children_source[1].specs_div = None
         /\ trims[i].children_source[1].options_div = None) =>
            /\ trims[i].specs = <<>> /\ trims[i].options = <<>>
            /\ lastcall[i].exc = "none"
            /\ \E k \in DOMAIN log : log[k].name = trims[i].name

\* the entity of a pass is left by an exception that is not a user interrupt
PassFailed(p) ==
    p.op \in {"fetch", "process"} /\ p.exc \notin {"none", "KeyboardInterrupt"}

\* C17: when the pass of get_children_sources or process_children_sources for
\* entity idx of the list raises, the exception is caught at that entity: the
\* run neither stops nor crashes, the loop goes on with entity idx + 1 of the
\* same list (after the last entity, with the call that follows the loop), an
\* entry naming the entity is logged, and no other entity of the list is changed.
C17_FailureIsolation ==
    [][(pc \in {"gcs", "pcs"} /\ PassFailed(last')) =>
          /\ IF idx < Len(parents)
             THEN pc' = pc /\ stage' = stage /\ parents' = parents /\ idx' = idx + 1
             ELSE /\ pc' \in {"gcs", "pcs", "finish"}
                  /\ pc = "gcs" /\ stage # "trims" =>
                        pc' = "pcs" /\ parents' = parents /\ idx' = 1
          /\ log' # <<>> /\ log'[Len(log')].level = "exception"
          /\ log'[Len(log')].name = last'.name
          /\ \A k \in 1..Len(parents) :
                k # idx => GetObj(makes_list', parents[k]) = GetObj(makes_list, parents[k])]_vars

\* C17 witness: after the pass of an entity failed, a later entity of the same
\* list has been visited and its pass went through.
C17_Witness ==
    /\ pc \in {"gcs", "pcs"} /\ idx > 1
    /\ last.op \in {"fetch", "process"} /\ last.exc = "none" /\ ~last.skipped
    /\ \E k \in DOMAIN log :
          /\ log[k].level = "exception"
          /\ \E j \in 1..(idx - 2) : GetObj(makes_list, parents[j]).name = log[k].name

\* C18: no exception ends a run of main: the run leaves main only through the
\* final "Done" with the store closed, or through a user interrupt.
C18_NoCrash == pc # "crashed"

\* every row of store a is in store b, at its place, with its markup if it has one
Kept(a, b) ==
    \A t \in {"makes", "models", "trims"} :
        /\ Len(a[t]) <= Len(b[t])
        /\ \A i \in 1..Len(a[t]) :
              \/ b[t][i] = a[t][i]
              \/ /\ a[t][i].children_source = None
                 /\ b[t][i] = [a[t][i] EXCEPT !.children_source = b[t][i].children_source]

\* store b is store a with one more row, or with one row changed
OneRowApart(a, b) ==
    \E t \in {"makes", "models", "trims"} :
        /\ \A t2 \in {"makes", "models", "trims"} \ {t} : a[t2] = b[t2]
        /\ \/ /\ Len(b[t]) = Len(a[t]) + 1
              /\ SubSeq(b[t], 1, Len(a[t])) = a[t]
           \/ /\ Len(b[t]) = Len(a[t])
              /\ Cardinality({ i \in 1..Len(a[t]) : a[t][i] # b[t][i] }) = 1

\* C19: a step in which the user interrupts the run keeps every committed row
\* and markup in the store, and what the connection holds uncommitted is the
\* one statement of the entity in flight (at most one row apart from the
\* committed store); the handler of the interrupt then
\* leaves the committed store as it is, closes the connection and stops.
C19_InterruptDurable ==
    [][/\ (pc # "interrupted" /\ pc' = "interrupted") =>
             /\ Kept(db, db')
             /\ inflight' # None => inflight'[1] = db' \/ OneRowApart(db', inflight'[1])
       /\ pc = "interrupted" =>
             /\ pc' = "stopped" /\ db' = db /\ ~dbopen'
       /\ pc' = "stopped" => ~dbopen']_vars

\* C19 witness: the run was interrupted inside the pass of an entity whose
\* markup was fetched but not committed, and has stopped: the store is closed,
\* it holds a markup committed earlier and none for the entity in flight.
C19_Witness ==
    /\ pc = "stopped" /\ ~dbopen
    /\ last.op = "fetch" /\ last.exc = "KeyboardInterrupt"
    /\ GetObj(makes_list, last.path).children_source # None
    /\ \E t \in {"makes", "models", "trims"} :
          \E i \in 1..Len(db[t]) : db[t][i].children_source # None
    /\ \E i \in 1..Len(db[TableOf(last.path)]) :
          /\ db[TableOf(last.path)][i].id = GetObj(makes_list, last.path).id
          /\ db[TableOf(last.path)][i].children_source = None

\* the nodes of the hierarchy in memory, by path
AllPaths(ml) == MakePaths(ml) \o ModelPaths(ml) \o TrimPaths(ml)

\* the markup of the node at path is committed in the node's row of the store
Cached(path) ==
    LET obj == GetObj(makes_list, path)
        rows == db[TableOf(path)]
    IN  \E i \in 1..Len(rows) :
           /\ rows[i].id = obj.id
           /\ rows[i].name = obj.name
           /\ rows[i].children_source = Some(ToText(obj.children_source[1]))

\* C20: at every entity boundary of get_children_sources, and after its loop,
\* every node whose children_source is set in memory has exactly that markup
\* committed in its row of the store.
C20_MarkupCached ==
    (pc \in {"gcs", "pcs", "finish", "done"}) =>
        \A k \in 1..Len(AllPaths(makes_list)) :
            GetObj(makes_list, AllPaths(makes_list)[k]).children_source # None =>
                Cached(AllPaths(makes_list)[k])

\* the id of the parent of the node at path; a make has none (0)
ParentId(path) ==
    IF Len(path) = 1 THEN 0
    ELSE GetObj(makes_list, SubSeq(path, 1, Len(path) - 1)).id

\* the node at path has a row in the table of its kind, under its own id and
\* the id of its parent
Persisted(path) ==
    \E i \in 1..Len(db[TableOf(path)]) :
        /\ db[TableOf(path)][i].id = GetObj(makes_list, path).id
        /\ db[TableOf(path)][i].name = GetObj(makes_list, path).name
        /\ db[TableOf(path)][i].parent = ParentId(path)

\* C21: between two passes of the run, every make of the makes list, every
\* model of a make and every trim of a model has a row in the table of its kind
\* whose id is the node's id and whose parent id is the id of its parent.
C21_ChildrenPersisted ==
    (pc \in {"gen_makes", "gcs", "pcs", "finish", "done"}) =>
        \A k \in 1..Len(AllPaths(makes_list)) : Persisted(AllPaths(makes_list)[k])

\* C22: a run of get_trims_source fetches every trim whose children_source
\* column holds the empty markup of a fetch that ended in redirect exhaustion:
\* the trim is among the rows the script selects.
C22_EmptyMarkupRetried ==
    [][(pc = "script_start" /\ pc' # "script_stopped") =>
          \A i \in 1..Len(db.trims) :
             db.trims[i].children_source = Some(ToText(EmptyDoc)) =>
                \E k \in 1..Len(pending') : pending'[k].id = db.trims[i].id]_vars

\* C23: after every row of the row loop, when last_section_key is set then
\* data[last_section_key] is there and is a nested mapping, and a continuation
\* row with two cells that arrives while last_section_key is set is written
\* without an exception.
C23_SectionKeyHoldsMapping ==
    \A e \in Entries :
        /\ e.after # None =>
              /\ HasKey(e.dataAfter, e.after[1])
              /\ Lookup(e.dataAfter, e.after[1]).kind = "dict"
        /\ (e.branch = "continuation" /\ Len(e.row.tds) = 2 /\ e.before # None) =>
              e.exc = "none"

\* row n of a trace is the first row read of its table
FirstOfTable(tr, n) ==
    n = 1 \/ tr[n - 1].region # tr[n].region \/ tr[n - 1].table # tr[n].table

SameTable(e1, e2) == e1.region = e2.region /\ e1.table = e2.table

\* C24: in every get_specops, the first row of each table is read with no
\* section key and empty data, and a later row with what the row before it in
\* the same table left; a continuation row that is written is written under a
\* section header read earlier in the same table; every key of data was
\* written by a row of the same table, and every record holds the data of the
\* rows of one table.
C24_StateScopedToTable ==
    \A i \in DOMAIN trims :
        /\ \A n \in 1..Len(lastcall[i].trace) :
              /\ FirstOfTable(lastcall[i].trace, n) =>
                    /\ lastcall[i].trace[n].before = None
                    /\ lastcall[i].trace[n].dataBefore = <<>>
              /\ ~FirstOfTable(lastcall[i].trace, n) =>
                    /\ lastcall[i].trace[n].before = lastcall[i].trace[n - 1].after
                    /\ lastcall[i].trace[n].dataBefore = lastcall[i].trace[n - 1].dataAfter
              /\ (/\ lastcall[i].trace[n].branch = "continuation"
                  /\ lastcall[i].trace[n].exc = "none") =>
                    \E m \in 1..(n - 1) :
                       /\ SameTable(lastcall[i].trace[m], lastcall[i].trace[n])
                       /\ lastcall[i].trace[m].branch = "section"
                       /\ lastcall[i].trace[m].after = lastcall[i].trace[n].before
              /\ \A k \in 1..Len(lastcall[i].trace[n].dataAfter) :
                    \E m \in 1..n :
                       /\ SameTable(lastcall[i].trace[m], lastcall[i].trace[n])
                       /\ HasKey(lastcall[i].trace[m].dataAfter,
                                 lastcall[i].trace[n].dataAfter[k].key)
                       /\ ~HasKey(lastcall[i].trace[m].dataBefore,
                                  lastcall[i].trace[n].dataAfter[k].key)
        /\ calls[i] = 1 =>
              \A rec \in { trims[i].specs[k] : k \in 1..Len(trims[i].specs) }
                         \cup { trims[i].options[k] : k \in 1..Len(trims[i].options) } :
                 \E n \in 1..Len(lastcall[i].trace) :
                    /\ lastcall[i].trace[n].dataAfter = rec.data
                    /\ n = Len(lastcall[i].trace)
                       \/ ~SameTable(lastcall[i].trace[n], lastcall[i].trace[n + 1])

\* C24 witness: a table whose last row left a section key set was followed, in
\* the same region or in the other one, by a table whose first row is a
\* continuation row, read with no section key.
C24_Witness ==
    \E i \in DOMAIN trims :
        \E n \in 2..Len(lastcall[i].trace) :
           /\ FirstOfTable(lastcall[i].trace, n)
           /\ lastcall[i].trace[n - 1].after # None
           /\ lastcall[i].trace[n].branch = "continuation"
           /\ lastcall[i].trace[n].before = None

====
